---- MODULE Spec2Model ----
(***************************************************************************)
(* Model of http-client-server.py: the accept loop of start_server, the    *)
(* per-connection loop of handle_client, and the peers that drive them.    *)
(*                                                                         *)
(* Text is modelled as sequences of one-character strings, so that         *)
(* str.split(), str.split(" "), str.startswith() and str.strip() are       *)
(* computed the way Python computes them.  A byte that is not valid UTF-8  *)
(* is the element BadByte.                                                 *)
(*                                                                         *)
(* Timing model: time.time() reads the variable now, which only Tick       *)
(* advances.  Computation takes no time; time passes while a thread is     *)
(* blocked in recv(), in accept() or in time.sleep().  A handler step      *)
(* therefore runs from the return of a blocking call to the next blocking  *)
(* call (or to the end of the thread), loop condition included.            *)
(*                                                                         *)
(* Printing: in Spec, SpecWide, SpecMulti and FairSpec a call of           *)
(* thread_print is part of the step that makes it.  SpecRun and FairRun    *)
(* tell the steps of thread_print apart (acquire PRINT_LOCK, write the     *)
(* text, write the line end and release) for the listener, the handlers    *)
(* and the client threads that run() starts in the same process.           *)
(***************************************************************************)
EXTENDS Integers, Sequences, FiniteSets, TLC

\* ------------------------------------------------------------------ bounds
MaxTime == 45          \* the clock stops here
TickStep == 15         \* seconds per clock step
MaxSends == 2          \* messages a peer sends on one connection (Spec)
MaxWideSends == 1      \* the same, where every kind of request is sent

\* ------------------------------------------------------- program constants
TIMEOUT == 30
RECV_SIZE == 512
SERVER_BACKLOG == 10

\* --------------------------------------------------------------- the text
BadByte == "<ff>"

SP == <<" ">>
TAB == <<"\t">>
CRLF == <<"\r", "\n">>
sGET == <<"G", "E", "T">>
sGETX == <<"G", "E", "T", "X">>
sPOST == <<"P", "O", "S", "T">>
sHTTP11 == <<"H", "T", "T", "P", "/", "1", ".", "1">>
sHTTP10 == <<"H", "T", "T", "P", "/", "1", ".", "0">>
sRoot == <<"/">>
sIndex == <<"/", "i", "n", "d", "e", "x", ".", "h", "t", "m", "l">>
sFavicon == <<"/", "f", "a", "v", "i", "c", "o", "n", ".", "i", "c", "o">>
sNope == <<"/", "n", "o">>
sDir == <<"/", "d">>
sWWW == <<"w", "w", "w">>
sWWWIndex == <<"w", "w", "w", "/", "i", "n", "d", "e", "x", ".", "h", "t", "m", "l">>

\* Python's str.isspace() on the characters used here.
IsSpace(ch) == ch \in {" ", "\t", "\r", "\n"}

Take(s, n) == SubSeq(s, 1, IF Len(s) < n THEN Len(s) ELSE n)
Drop(s, n) == SubSeq(s, (IF Len(s) < n THEN Len(s) ELSE n) + 1, Len(s))

\* str.startswith(prefix)
StartsWith(s, p) == Len(s) >= Len(p) /\ SubSeq(s, 1, Len(p)) = p

\* The elements of s at the positions in idx, in order.
Rank(idx, i) == Cardinality({j \in idx : j <= i})
AtPositions(s, idx) ==
    [k \in 1..Cardinality(idx) |-> s[CHOOSE i \in idx : Rank(idx, i) = k]]

\* str.strip(): leading and trailing whitespace removed
Strip(s) ==
    IF \A i \in 1..Len(s) : IsSpace(s[i]) THEN <<>>
    ELSE SubSeq(s,
                CHOOSE i \in 1..Len(s) :
                    ~IsSpace(s[i]) /\ \A j \in 1..(i - 1) : IsSpace(s[j]),
                CHOOSE i \in 1..Len(s) :
                    ~IsSpace(s[i]) /\ \A j \in (i + 1)..Len(s) : IsSpace(s[j]))

\* str.split(): split on runs of whitespace, no empty strings in the result
SplitWhitespace(s) ==
    LET first == {i \in 1..Len(s) :
                    ~IsSpace(s[i]) /\ (i = 1 \/ IsSpace(s[i - 1]))}
        last == {i \in 1..Len(s) :
                    ~IsSpace(s[i]) /\ (i = Len(s) \/ IsSpace(s[i + 1]))}
    IN  [k \in 1..Cardinality(first) |->
            SubSeq(s, CHOOSE i \in first : Rank(first, i) = k,
                      CHOOSE i \in last : Rank(last, i) = k)]

\* str.split(" "): split at every single space, empty strings kept
SplitSpace(s) ==
    LET cuts == {0, Len(s) + 1} \cup {i \in 1..Len(s) : s[i] = " "}
    IN  [k \in 1..(Cardinality(cuts) - 1) |->
            SubSeq(s, (CHOOSE i \in cuts : Rank(cuts, i) = k) + 1,
                      (CHOOSE i \in cuts : Rank(cuts, i) = k + 1) - 1)]

\* bytes.decode("UTF-8"): the text, or a UnicodeDecodeError
DecodeFails(bytes) == \E i \in 1..Len(bytes) : bytes[i] = BadByte

\* Text-mode reading (open(location, "r") ... readlines()): universal
\* newlines turn "\r\n" and a lone "\r" into "\n".
ReadText(s) ==
    LET kept == {i \in 1..Len(s) : ~(s[i] = "\n" /\ i > 1 /\ s[i - 1] = "\r")}
        text == [i \in 1..Len(s) |-> IF s[i] = "\r" THEN "\n" ELSE s[i]]
    IN  AtPositions(text, kept)

\* s occurs in t as a contiguous run
Contains(t, s) ==
    \E i \in 0..(Len(t) - Len(s)) : SubSeq(t, i + 1, i + Len(s)) = s

\* ---------------------------------------------------------- the responses
\* What sendall() is given: the status line, whether "\r\n\r\n" follows it,
\* and the body.
Response(status, reason, sep, body) ==
    [status |-> status, reason |-> reason, sep |-> sep, body |-> body]

Resp505 ==
    Response(505, "HTTP Version not supported", TRUE,
             <<"Server only accepts HTTP/1.1. Please try again.">>)
RespFavicon == Response(404, "Not Found", TRUE, <<>>)
Resp500 == Response(500, "Internal Server Error", FALSE, <<>>)
Resp200(text) == Response(200, "OK", TRUE, text)
\* str(e) of the FileNotFoundError that open() raises
NotFoundText(location) ==
    <<"[Errno 2] No such file or directory: '">> \o location \o <<"'">>
Resp404(location) ==
    Response(404, "Not Found", TRUE,
             <<"Could not find ">> \o location \o <<", server-stack: ">>
                 \o NotFoundText(location))

\* ------------------------------------------------------- the public files
DocA == <<"h", "i">>
DocB == <<"o", "k", "\r", "\n">>
DocBad == <<"h", BadByte>>
Docs == {DocA, DocB, DocBad}

File(content) == [kind |-> "file", content |-> content]
Directory == [kind |-> "dir", content |-> <<>>]
Missing == [kind |-> "missing", content |-> <<>>]

\* What open(location, "r") finds.  www and www/d are directories, the root
\* document is files[sWWWIndex], nothing else exists.
Lookup(files, location) ==
    IF location \in DOMAIN files THEN files[location] ELSE Missing

\* ------------------------------------------------ one pass of the handler
\* The outcome of lines 46-94 for one non-empty, decoded read:
\*   sent    the responses given to sendall(), in order
\*   exit    "continue" (back to the loop condition), "return" (line 55) or
\*           "raise" (an exception leaves handle_client)
\*   exc     the exception raised, "none" otherwise
\*   reset   TRUE iff line 89 ran (time_now = time.time())
\*   closed  TRUE iff sock.close() ran
\*   opened  the locations given to open()
\*   log     the lines given to thread_print(), by kind
Outcome(sent, exit, exc, reset, closed, opened, log) ==
    [sent |-> sent, exit |-> exit, exc |-> exc, reset |-> reset,
     closed |-> closed, opened |-> opened, log |-> log]

\* lines 68-73
ResolveLocation(location) ==
    IF location = sRoot THEN sWWWIndex ELSE sWWW \o location

\* ServeLocation without line 89: the deadline is never moved.
ServeLocationNoReset(files, location) ==
    LET entry == Lookup(files, location)
        pre == <<"received", "get">>
    IN  CASE entry.kind = "missing" ->
               Outcome(<<Resp404(location)>>, "continue", "none", FALSE, FALSE,
                       <<location>>, pre \o <<"not-found">>)
          [] entry.kind = "dir" ->
               Outcome(<<>>, "raise", "IsADirectoryError", FALSE, FALSE,
                       <<location>>, pre)
          [] entry.kind = "file" /\ DecodeFails(entry.content) ->
               Outcome(<<>>, "raise", "UnicodeDecodeError", FALSE, FALSE,
                       <<location>>, pre)
          [] OTHER ->
               Outcome(<<Resp200(ReadText(entry.content))>>, "continue", "none",
                       FALSE, FALSE, <<location>>, pre \o <<"sent">>)

\* ServeLocation with line 89 inside the try block: a 404 leaves the deadline.
ServeLocationResetInTry(files, location) ==
    LET entry == Lookup(files, location)
        pre == <<"received", "get">>
    IN  CASE entry.kind = "missing" ->
               Outcome(<<Resp404(location)>>, "continue", "none", FALSE, FALSE,
                       <<location>>, pre \o <<"not-found">>)
          [] entry.kind = "dir" ->
               Outcome(<<>>, "raise", "IsADirectoryError", FALSE, FALSE,
                       <<location>>, pre)
          [] entry.kind = "file" /\ DecodeFails(entry.content) ->
               Outcome(<<>>, "raise", "UnicodeDecodeError", FALSE, FALSE,
                       <<location>>, pre)
          [] OTHER ->
               Outcome(<<Resp200(ReadText(entry.content))>>, "continue", "none",
                       TRUE, FALSE, <<location>>, pre \o <<"sent">>)

\* lines 77-89
ServeLocation(files, location) ==
    LET entry == Lookup(files, location)
        pre == <<"received", "get">>
    IN  CASE entry.kind = "missing" ->
               Outcome(<<Resp404(location)>>, "continue", "none", TRUE, FALSE,
                       <<location>>, pre \o <<"not-found">>)
          [] entry.kind = "dir" ->
               Outcome(<<>>, "raise", "IsADirectoryError", FALSE, FALSE,
                       <<location>>, pre)
          [] entry.kind = "file" /\ DecodeFails(entry.content) ->
               Outcome(<<>>, "raise", "UnicodeDecodeError", FALSE, FALSE,
                       <<location>>, pre)
          [] OTHER ->
               Outcome(<<Resp200(ReadText(entry.content))>>, "continue", "none",
                       TRUE, FALSE, <<location>>, pre \o <<"sent">>)

\* ServeMethod without the favicon shortcut of lines 62-66.
ServeMethodNoShortcut(files, data) ==
    IF StartsWith(data, sGET)
    THEN LET fields == SplitSpace(data)
         IN  IF Len(fields) < 2
             THEN Outcome(<<>>, "raise", "IndexError", FALSE, FALSE, <<>>,
                          <<"received">>)
             ELSE ServeLocation(files, ResolveLocation(fields[2]))
    ELSE Outcome(<<Resp500>>, "continue", "none", FALSE, FALSE, <<>>,
                 <<"received", "non-get">>)

\* lines 58-94
ServeMethod(files, data) ==
    IF StartsWith(data, sGET)
    THEN LET fields == SplitSpace(data)
         IN  IF Len(fields) < 2
             THEN Outcome(<<>>, "raise", "IndexError", FALSE, FALSE, <<>>,
                          <<"received">>)
             ELSE IF fields[2] = sFavicon
                  THEN Outcome(<<RespFavicon>>, "continue", "none", FALSE, FALSE,
                               <<>>, <<"received", "favicon">>)
                  ELSE ServeLocation(files, ResolveLocation(fields[2]))
    ELSE Outcome(<<Resp500>>, "continue", "none", FALSE, FALSE, <<>>,
                 <<"received", "non-get">>)

\* HandleRequest with the version test made only for GET requests.
HandleRequestVersionOfGetOnly(files, data) ==
    LET tokens == SplitWhitespace(data)
    IN  IF Len(tokens) < 3
        THEN Outcome(<<>>, "raise", "IndexError", FALSE, FALSE, <<>>,
                     <<"received">>)
        ELSE IF /\ StartsWith(data, sGET)
                /\ \E version \in {tokens[3]} : Strip(version) # sHTTP11
             THEN Outcome(<<Resp505>>, "return", "none", FALSE, TRUE, <<>>,
                          <<"received", "non-1.1">>)
             ELSE ServeMethod(files, data)

\* lines 46-94
HandleRequest(files, data) ==
    LET tokens == SplitWhitespace(data)
    IN  IF Len(tokens) < 3
        THEN Outcome(<<>>, "raise", "IndexError", FALSE, FALSE, <<>>,
                     <<"received">>)
        ELSE IF \E version \in {tokens[3]} : Strip(version) # sHTTP11
             THEN Outcome(<<Resp505>>, "return", "none", FALSE, TRUE, <<>>,
                          <<"received", "non-1.1">>)
             ELSE ServeMethod(files, data)

\* line 37
WithinTimeout(tnow, t) == t < tnow + TIMEOUT

\* -------------------------------------------------------------- the state
Conns == {1, 2}

VARIABLES
    now,        \* what time.time() returns
    files,      \* the files under www/
    backlog,    \* connections established and not yet accepted
    listener,   \* start_server: its position ("count", "accept", or "dead"
                \* once an exception has ended it) and the count it printed
    peer,       \* peer[c]: the client's end of connection c
    inbox,      \* inbox[c]: bytes the client sent that recv() has not returned
    nsends,     \* nsends[c]: messages the client has sent
    h           \* h[c]: the handler thread of connection c

\* The threads one by one, where the steps inside thread_print count.
VARIABLES
    PRINT_LOCK, \* the thread that holds the lock, NoThread when it is free
    stdout,     \* the threads whose text stands on the unfinished output line
    tp,         \* tp[t]: what thread t still has to do before it blocks again
    wire,       \* wire[c]: responses sent on connection c, not yet received
    client,     \* client[c]: the request start_client sent and what it got
    dispatched  \* dispatched[c]: handler threads started with connection c

runvars == <<PRINT_LOCK, stdout, tp, wire, client, dispatched>>
vars ==
    <<now, files, backlog, listener, peer, inbox, nsends, h,
      PRINT_LOCK, stdout, tp, wire, client, dispatched>>

\* A handler thread.  pc is where it stands:
\*   "none"     not started          "recv"  blocked in sock.recv (line 39)
\*   "sleep"    in time.sleep (43)   "done"  returned from handle_client
\*   "crashed"  ended by an exception
\* The other fields record what the thread did, for the properties below:
\*   open      its socket has not been closed by sock.close()
\*   closedBy  the branch that closed it: "version" (line 54), "timeout" (97)
\*   exc       the exception that ended the thread
\*   nread     non-empty reads so far;  data: the bytes of the last one
\*   at        when the last read returned (or the thread started)
\*   reply     what the last pass gave to sendall();  opened: to open()
\*   log       what the last step gave to thread_print(), by kind
\*   prev      data and reply of the read before the last one
\*   steady    every read so far was a well-formed GET of something other
\*             than the favicon, less than TIMEOUT after the one before
NoRead == [data |-> <<>>, reply |-> <<>>]
NoHandler ==
    [pc |-> "none", time_now |-> 0, open |-> FALSE, closedBy |-> "none",
     exc |-> "none", nread |-> 0, data |-> <<>>, at |-> 0, reply |-> <<>>,
     opened |-> <<>>, log |-> <<>>, prev |-> NoRead, steady |-> TRUE]

Alive(c) == h[c].pc \in {"recv", "sleep"}

\* The requests the peers send.
Req(method, path, version) == method \o SP \o path \o SP \o version
ReqRoot == Req(sGET, sRoot, sHTTP11)
ReqIndex == Req(sGET, sIndex, sHTTP11)
ReqFavicon == Req(sGET, sFavicon, sHTTP11)
ReqNope == Req(sGET, sNope, sHTTP11) \o CRLF
ReqDir == Req(sGET, sDir, sHTTP11)
ReqOld == Req(sGET, sRoot, sHTTP10)
ReqPost == Req(sPOST, sRoot, sHTTP11)
ReqPostOld == Req(sPOST, sRoot, sHTTP10) \o CRLF
ReqGetx == Req(sGETX, sRoot, sHTTP11)
ReqTab == sGET \o TAB \o sRoot \o SP \o sHTTP11
ReqLead == CRLF \o Req(sGET, sRoot, sHTTP11)
ReqShort == sGET \o SP \o sRoot
ReqBlank == CRLF
ReqBad == <<BadByte>>

Requests ==
    {ReqRoot, ReqIndex, ReqFavicon, ReqNope, ReqDir, ReqOld, ReqPost,
     ReqPostOld, ReqGetx, ReqTab, ReqLead, ReqShort, ReqBlank, ReqBad}
SomeRequests == {ReqIndex, ReqNope, ReqFavicon, ReqPost, ReqDir}
FewRequests == {ReqRoot, ReqShort, ReqDir, ReqBad}

RootDocs == {File(d) : d \in Docs}
FilesWith(root) ==
    (sWWWIndex :> root) @@ (sWWW :> Directory) @@ ((sWWW \o sDir) :> Directory)

\* The threads of the process (run, lines 156-163), by name and by the
\* connection they serve.
Main == <<"Server-main", 0>>
Handler(c) == <<"Server-handle", c>>
Client(c) == <<"Client", c>>
NoThread == <<"none", 0>>
Threads ==
    {Main} \cup {Handler(c) : c \in Conns} \cup {Client(c) : c \in Conns}

\* What a thread has before it: the calls it makes, in order, up to the
\* call it will block in; stage is where it stands inside thread_print
\* ("out", "in" once it holds the lock, "written" once print() has written
\* the text and not yet the line end); arg is what its sendall() is given.
Idle == [stage |-> "out", todo |-> <<>>, arg |-> <<>>]

\* start_client, lines 142-153, as the calls it makes
ClientProgram == <<"print", "connect", "print", "sendall", "recv", "print">>
NoClient == [request |-> <<>>, data |-> <<>>]

Init ==
    /\ now = 0
    /\ files \in {FilesWith(File(DocA)), FilesWith(File(DocB))}
    /\ backlog = <<>>
    /\ listener = [pc |-> "count", count |-> 0]
    /\ peer = [c \in Conns |-> "none"]
    /\ inbox = [c \in Conns |-> <<>>]
    /\ nsends = [c \in Conns |-> 0]
    /\ h = [c \in Conns |-> NoHandler]
    /\ PRINT_LOCK = NoThread
    /\ stdout = <<>>
    /\ tp = [t \in Threads |->
                IF t[1] = "Client" THEN [Idle EXCEPT !.todo = ClientProgram]
                ELSE Idle]
    /\ wire = [c \in Conns |-> <<>>]
    /\ client = [c \in Conns |-> NoClient]
    /\ dispatched = [c \in Conns |-> 0]

\* ------------------------------------------------------------ environment
Tick ==
    /\ now + TickStep <= MaxTime
    /\ now' = now + TickStep
    /\ UNCHANGED <<files, backlog, listener, peer, inbox, nsends, h>>
    /\ UNCHANGED runvars

\* Somebody rewrites www/index.html.
FsEdit(root) ==
    /\ root \in RootDocs
    /\ root # files[sWWWIndex]
    /\ files' = [files EXCEPT ![sWWWIndex] = root]
    /\ UNCHANGED <<now, backlog, listener, peer, inbox, nsends, h>>
    /\ UNCHANGED runvars

\* A client connects (start_client, line 143): the connection waits in the
\* listening socket's backlog.
ClientConnect(c) ==
    /\ peer[c] = "none"
    /\ Len(backlog) < SERVER_BACKLOG
    /\ peer' = [peer EXCEPT ![c] = "open"]
    /\ backlog' = Append(backlog, c)
    /\ UNCHANGED <<now, files, listener, inbox, nsends, h>>
    /\ UNCHANGED runvars

\* A client sends bytes (line 149).  Bytes sent before the handler reads
\* queue up behind one another in the same stream.
ClientSend(c, bytes, limit) ==
    /\ peer[c] = "open"
    /\ nsends[c] < limit
    /\ h[c].pc \notin {"done"}
    /\ inbox' = [inbox EXCEPT ![c] = @ \o bytes]
    /\ nsends' = [nsends EXCEPT ![c] = @ + 1]
    /\ UNCHANGED <<now, files, backlog, listener, peer, h>>
    /\ UNCHANGED runvars

\* The client closes its end in the orderly way: queued bytes stay readable,
\* then recv() returns b"".
ClientClose(c) ==
    /\ peer[c] = "open"
    /\ peer' = [peer EXCEPT ![c] = "closed"]
    /\ UNCHANGED <<now, files, backlog, listener, inbox, nsends, h>>
    /\ UNCHANGED runvars

\* The client aborts the connection: queued bytes are lost and recv() raises
\* ConnectionResetError.
ClientReset(c) ==
    /\ peer[c] = "open"
    /\ peer' = [peer EXCEPT ![c] = "reset"]
    /\ inbox' = [inbox EXCEPT ![c] = <<>>]
    /\ UNCHANGED <<now, files, backlog, listener, nsends, h>>
    /\ UNCHANGED runvars

\* --------------------------------------------------------------- listener
\* lines 126-132: count the live threads named "Server-handle", print it
ActiveCount == Cardinality({c \in Conns : Alive(c)})

ListenerCount ==
    /\ listener.pc = "count"
    /\ listener' = [pc |-> "accept", count |-> ActiveCount]
    /\ UNCHANGED <<now, files, backlog, peer, inbox, nsends, h>>
    /\ UNCHANGED runvars

\* lines 34-37: the handler's first steps, up to its first recv()
StartHandler(t) ==
    [NoHandler EXCEPT !.pc = "recv", !.time_now = t, !.open = TRUE, !.at = t]

\* lines 134-135: accept a connection and start its handler thread
Accept ==
    /\ listener.pc = "accept"
    /\ backlog # <<>>
    /\ h' = [h EXCEPT ![Head(backlog)] = StartHandler(now)]
    /\ backlog' = Tail(backlog)
    /\ listener' = [listener EXCEPT !.pc = "count"]
    /\ UNCHANGED <<now, files, peer, inbox, nsends>>
    /\ UNCHANGED runvars

\* ---------------------------------------------------------------- handler
\* The request line "GET <path> HTTP/1.1" at the very start of the data,
\* single spaces between its parts, followed by nothing or by a line end.
WellFormedGet(data) ==
    LET tokens == SplitWhitespace(data)
    IN  /\ Len(tokens) >= 3
        /\ LET line == Req(sGET, tokens[2], sHTTP11)
           IN  /\ StartsWith(data, line)
               /\ Len(data) > Len(line) => data[Len(line) + 1] \in {"\r", "\n"}

SteadyRequest(data) ==
    WellFormedGet(data) /\ SplitWhitespace(data)[2] # sFavicon

\* line 37, and lines 96-98 when the condition is false
Loop(hc, t) ==
    IF WithinTimeout(hc.time_now, t)
    THEN [hc EXCEPT !.pc = "recv"]
    ELSE [hc EXCEPT !.pc = "done", !.open = FALSE, !.closedBy = "timeout",
                    !.log = Append(@, "timeout")]

\* What a non-empty read leaves in the record, before the pass over it.
Noted(hc, bytes, t) ==
    [hc EXCEPT !.nread = @ + 1, !.data = bytes, !.at = t,
               !.prev = [data |-> hc.data, reply |-> hc.reply],
               !.steady = @ /\ SteadyRequest(bytes) /\ t - hc.at < TIMEOUT]

\* Finish with the 505 branch closing the socket and not returning (line 55
\* left out): the loop goes on with the closed socket.
FinishWithoutReturn(hc, o, t) ==
    LET h1 == [hc EXCEPT !.reply = o.sent, !.opened = o.opened, !.log = o.log,
                         !.exc = o.exc,
                         !.time_now = IF o.reset THEN t ELSE @]
    IN  CASE o.exit = "continue" -> Loop(h1, t)
          [] o.exit = "return" ->
               [h1 EXCEPT !.pc = "recv", !.open = ~o.closed,
                          !.closedBy = "version"]
          [] OTHER -> [h1 EXCEPT !.pc = "crashed"]

\* lines 46-98 for the outcome o of one pass at time t
Finish(hc, o, t) ==
    LET h1 == [hc EXCEPT !.reply = o.sent, !.opened = o.opened, !.log = o.log,
                         !.exc = o.exc,
                         !.time_now = IF o.reset THEN t ELSE @]
    IN  CASE o.exit = "continue" -> Loop(h1, t)
          [] o.exit = "return" ->
               [h1 EXCEPT !.pc = "done", !.open = ~o.closed,
                          !.closedBy = "version"]
          [] OTHER -> [h1 EXCEPT !.pc = "crashed"]

\* lines 39-94: decode what recv() returned and make one pass over it
Pass(fs, bytes) ==
    IF DecodeFails(bytes)
    THEN Outcome(<<>>, "raise", "UnicodeDecodeError", FALSE, FALSE, <<>>, <<>>)
    ELSE HandleRequest(fs, bytes)

\* RecvData with handle_client called by the accept loop itself instead of
\* in a thread of its own (line 135): its exception ends start_server.
RecvDataInline(c) ==
    /\ h[c].pc = "recv"
    /\ peer[c] # "reset"
    /\ inbox[c] # <<>>
    /\ \E bytes \in {Take(inbox[c], RECV_SIZE)} :
       \E o \in {Pass(files, bytes)} :
       \E hc \in {Noted(h[c], bytes, now)} :
          /\ h' = [h EXCEPT ![c] = Finish(hc, o, now)]
          /\ listener' = IF o.exit = "raise"
                         THEN [listener EXCEPT !.pc = "dead"] ELSE listener
    /\ inbox' = [inbox EXCEPT ![c] = Drop(@, RECV_SIZE)]
    /\ UNCHANGED <<now, files, backlog, peer, nsends>>
    /\ UNCHANGED runvars

\* lines 39-98: recv() returns bytes, and the handler runs on to its next
\* blocking call or to its end
RecvData(c) ==
    /\ h[c].pc = "recv"
    /\ peer[c] # "reset"
    /\ inbox[c] # <<>>
    /\ \E bytes \in {Take(inbox[c], RECV_SIZE)} :
       \E o \in {Pass(files, bytes)} :
       \E hc \in {Noted(h[c], bytes, now)} :
          h' = [h EXCEPT ![c] = Finish(hc, o, now)]
    /\ inbox' = [inbox EXCEPT ![c] = Drop(@, RECV_SIZE)]
    /\ UNCHANGED <<now, files, backlog, listener, peer, nsends>>
    /\ UNCHANGED runvars

\* RecvEmpty with the empty read taken for activity: time_now is set anew.
RecvEmptyResetsDeadline(c) ==
    /\ h[c].pc = "recv"
    /\ peer[c] = "closed"
    /\ inbox[c] = <<>>
    /\ h' = [h EXCEPT ![c] =
                [@ EXCEPT !.pc = "sleep", !.log = <<>>, !.time_now = now]]
    /\ UNCHANGED <<now, files, backlog, listener, peer, inbox, nsends>>
    /\ UNCHANGED runvars

\* lines 39-44: the peer has closed, recv() returns b"", the handler sleeps
RecvEmpty(c) ==
    /\ h[c].pc = "recv"
    /\ peer[c] = "closed"
    /\ inbox[c] = <<>>
    /\ h' = [h EXCEPT ![c] = [@ EXCEPT !.pc = "sleep", !.log = <<>>]]
    /\ UNCHANGED <<now, files, backlog, listener, peer, inbox, nsends>>
    /\ UNCHANGED runvars

\* line 39: recv() raises ConnectionResetError
RecvReset(c) ==
    /\ h[c].pc = "recv"
    /\ peer[c] = "reset"
    /\ h' = [h EXCEPT ![c] =
                [@ EXCEPT !.pc = "crashed", !.exc = "ConnectionResetError",
                          !.log = <<>>]]
    /\ UNCHANGED <<now, files, backlog, listener, peer, inbox, nsends>>
    /\ UNCHANGED runvars

\* lines 43-44, 37: the sleep ends and the loop condition is evaluated
Wake(c) ==
    /\ h[c].pc = "sleep"
    /\ h' = [h EXCEPT ![c] = Loop([@ EXCEPT !.log = <<>>], now)]
    /\ UNCHANGED <<now, files, backlog, listener, peer, inbox, nsends>>
    /\ UNCHANGED runvars

\* ------------------------------------------- the threads, print by print
\* The same threads with the steps of thread_print told apart: a thread's
\* step changes the program's state as above and leaves in tp the calls it
\* makes before it blocks again, and those are gone through one by one.

\* thread_print, line 19: the thread is at a call of thread_print
AtPrint(t) == tp[t].todo # <<>> /\ Head(tp[t].todo) = "print"

\* Enter without the lock: print() called bare.
EnterUnlocked(t) ==
    /\ AtPrint(t)
    /\ tp[t].stage = "out"
    /\ tp' = [tp EXCEPT ![t].stage = "in"]
    /\ UNCHANGED <<now, files, backlog, listener, peer, inbox, nsends, h>>
    /\ UNCHANGED <<PRINT_LOCK, stdout, wire, client, dispatched>>

\* line 19: "with PRINT_LOCK" acquires the lock, waiting while it is held
Enter(t) ==
    /\ AtPrint(t)
    /\ tp[t].stage = "out"
    /\ PRINT_LOCK = NoThread
    /\ PRINT_LOCK' = t
    /\ tp' = [tp EXCEPT ![t].stage = "in"]
    /\ UNCHANGED <<now, files, backlog, listener, peer, inbox, nsends, h>>
    /\ UNCHANGED <<stdout, wire, client, dispatched>>

\* line 20: print(arg) writes the text ...
Write(t) ==
    /\ tp[t].stage = "in"
    /\ stdout' = Append(stdout, t)
    /\ tp' = [tp EXCEPT ![t].stage = "written"]
    /\ UNCHANGED <<now, files, backlog, listener, peer, inbox, nsends, h>>
    /\ UNCHANGED <<PRINT_LOCK, wire, client, dispatched>>

\* Leave with the lock kept: acquire() with no release().
LeaveHolding(t) ==
    /\ tp[t].stage = "written"
    /\ stdout' = <<>>
    /\ tp' = [tp EXCEPT ![t].stage = "out", ![t].todo = Tail(@)]
    /\ UNCHANGED <<now, files, backlog, listener, peer, inbox, nsends, h>>
    /\ UNCHANGED <<PRINT_LOCK, wire, client, dispatched>>

\* lines 20, 19: ... and then the line end; the with block releases the lock
Leave(t) ==
    /\ tp[t].stage = "written"
    /\ stdout' = <<>>
    /\ PRINT_LOCK' = NoThread
    /\ tp' = [tp EXCEPT ![t].stage = "out", ![t].todo = Tail(@)]
    /\ UNCHANGED <<now, files, backlog, listener, peer, inbox, nsends, h>>
    /\ UNCHANGED <<wire, client, dispatched>>

\* A handler thread lives from its start to its return or its exception.
Running(c) == Alive(c) \/ tp[Handler(c)].todo # <<>>
RunningCount == Cardinality({c \in Conns : Running(c)})

\* lines 126-130: the live threads named "Server-handle" are counted; the
\* count is printed by the call of thread_print that follows (line 132)
RunCount ==
    /\ listener.pc = "count"
    /\ tp[Main].todo = <<>>
    /\ listener' = [pc |-> "accept", count |-> RunningCount]
    /\ tp' = [tp EXCEPT ![Main].todo = <<"print">>]
    /\ UNCHANGED <<now, files, backlog, peer, inbox, nsends, h>>
    /\ UNCHANGED <<PRINT_LOCK, stdout, wire, client, dispatched>>

\* RunAccept with the connection left at the head of the queue.
RunAcceptAgain ==
    /\ listener.pc = "accept"
    /\ tp[Main].todo = <<>>
    /\ backlog # <<>>
    /\ h' = [h EXCEPT ![Head(backlog)] = StartHandler(now)]
    /\ dispatched' = [dispatched EXCEPT ![Head(backlog)] = @ + 1]
    /\ listener' = [listener EXCEPT !.pc = "count"]
    /\ UNCHANGED <<now, files, backlog, peer, inbox, nsends>>
    /\ UNCHANGED <<PRINT_LOCK, stdout, tp, wire, client>>

\* lines 134-135: accept() returns a connection and a thread is started
\* with it
RunAccept ==
    /\ listener.pc = "accept"
    /\ tp[Main].todo = <<>>
    /\ backlog # <<>>
    /\ h' = [h EXCEPT ![Head(backlog)] = StartHandler(now)]
    /\ dispatched' = [dispatched EXCEPT ![Head(backlog)] = @ + 1]
    /\ backlog' = Tail(backlog)
    /\ listener' = [listener EXCEPT !.pc = "count"]
    /\ UNCHANGED <<now, files, peer, inbox, nsends>>
    /\ UNCHANGED <<PRINT_LOCK, stdout, tp, wire, client>>

\* line 134: accept() raises OSError (no descriptors left, the connection
\* aborted before it was accepted); nothing in start_server catches it
RunAcceptFails ==
    /\ listener.pc = "accept"
    /\ tp[Main].todo = <<>>
    /\ listener' = [listener EXCEPT !.pc = "dead"]
    /\ UNCHANGED <<now, files, backlog, peer, inbox, nsends, h>>
    /\ UNCHANGED runvars

\* The calls of one pass in the order of the source: what is printed by
\* kind, and where sendall() stands beside it (lines 47-96).
OpsOf(kind) ==
    CASE kind = "received" -> <<"print">>
      [] kind = "non-1.1" -> <<"print", "sendall">>
      [] kind = "favicon" -> <<"print", "sendall">>
      [] kind = "get" -> <<"print">>
      [] kind = "sent" -> <<"sendall", "print">>
      [] kind = "not-found" -> <<"sendall", "print">>
      [] kind = "non-get" -> <<"print", "sendall">>
      [] kind = "timeout" -> <<"print">>
Ops(log) ==
    LET part(i) == IF i <= Len(log) THEN OpsOf(log[i]) ELSE <<>>
    IN  part(1) \o part(2) \o part(3) \o part(4)

\* lines 39-98: recv() returns bytes
RunRecv(c) ==
    /\ h[c].pc = "recv"
    /\ tp[Handler(c)].todo = <<>>
    /\ peer[c] # "reset"
    /\ inbox[c] # <<>>
    /\ \E bytes \in {Take(inbox[c], RECV_SIZE)} :
       \E o \in {Pass(files, bytes)} :
       \E hc \in {Finish(Noted(h[c], bytes, now), o, now)} :
          /\ h' = [h EXCEPT ![c] = hc]
          /\ tp' = [tp EXCEPT ![Handler(c)] =
                        [stage |-> "out", todo |-> Ops(hc.log), arg |-> o.sent]]
    /\ inbox' = [inbox EXCEPT ![c] = Drop(@, RECV_SIZE)]
    /\ UNCHANGED <<now, files, backlog, listener, peer, nsends>>
    /\ UNCHANGED <<PRINT_LOCK, stdout, wire, client, dispatched>>

\* Deliver with one socket shared by the handlers: the first one dispatched.
DeliverShared(w, c, sent) ==
    [w EXCEPT ![CHOOSE d \in Conns :
                    dispatched[d] > 0 /\ \A e \in Conns :
                        dispatched[e] > 0 => d <= e] = @ \o sent]

\* sock.sendall(...) in handle_client: sock is the connection the thread was
\* started with (line 135, args=(connection, address))
Deliver(w, c, sent) == [w EXCEPT ![c] = @ \o sent]

\* lines 52, 65, 82, 86, 94: the handler's sendall()
RunReply(c) ==
    /\ tp[Handler(c)].todo # <<>>
    /\ Head(tp[Handler(c)].todo) = "sendall"
    /\ wire' = Deliver(wire, c, tp[Handler(c)].arg)
    /\ tp' = [tp EXCEPT ![Handler(c)].todo = Tail(@)]
    /\ UNCHANGED <<now, files, backlog, listener, peer, inbox, nsends, h>>
    /\ UNCHANGED <<PRINT_LOCK, stdout, client, dispatched>>

\* lines 39-44: recv() returns b"" once the peer has closed
RunRecvEmpty(c) ==
    /\ tp[Handler(c)].todo = <<>>
    /\ RecvEmpty(c)

\* lines 43-44, 37, 96-98: the sleep ends
RunWake(c) ==
    /\ h[c].pc = "sleep"
    /\ \E hc \in {Loop([h[c] EXCEPT !.log = <<>>], now)} :
          /\ h' = [h EXCEPT ![c] = hc]
          /\ tp' = [tp EXCEPT ![Handler(c)].todo = Ops(hc.log)]
    /\ UNCHANGED <<now, files, backlog, listener, peer, inbox, nsends>>
    /\ UNCHANGED <<PRINT_LOCK, stdout, wire, client, dispatched>>

\* The requests of start_client: the one of line 146, and one of a peer that
\* speaks HTTP/1.0.
RunRequests == {ReqRoot, ReqOld}

AtCall(t, call) == tp[t].todo # <<>> /\ Head(tp[t].todo) = call

\* line 143
RunConnect(c) ==
    /\ AtCall(Client(c), "connect")
    /\ Len(backlog) < SERVER_BACKLOG
    /\ peer' = [peer EXCEPT ![c] = "open"]
    /\ backlog' = Append(backlog, c)
    /\ tp' = [tp EXCEPT ![Client(c)].todo = Tail(@)]
    /\ UNCHANGED <<now, files, listener, inbox, nsends, h>>
    /\ UNCHANGED <<PRINT_LOCK, stdout, wire, client, dispatched>>

\* line 149
RunSendall(c) ==
    /\ AtCall(Client(c), "sendall")
    /\ \E bytes \in RunRequests :
          /\ inbox' = [inbox EXCEPT ![c] = @ \o bytes]
          /\ client' = [client EXCEPT ![c].request = bytes]
    /\ nsends' = [nsends EXCEPT ![c] = @ + 1]
    /\ tp' = [tp EXCEPT ![Client(c)].todo = Tail(@)]
    /\ UNCHANGED <<now, files, backlog, listener, peer, h>>
    /\ UNCHANGED <<PRINT_LOCK, stdout, wire, dispatched>>

\* line 152: the client's recv() returns what the server sent on its
\* connection
RunClientRecv(c) ==
    /\ AtCall(Client(c), "recv")
    /\ wire[c] # <<>>
    /\ client' = [client EXCEPT ![c].data = wire[c]]
    /\ wire' = [wire EXCEPT ![c] = <<>>]
    /\ tp' = [tp EXCEPT ![Client(c)].todo = Tail(@)]
    /\ UNCHANGED <<now, files, backlog, listener, peer, inbox, nsends, h>>
    /\ UNCHANGED <<PRINT_LOCK, stdout, dispatched>>

\* line 153 was the last: start_client returns and its socket goes with it
ClientExit(c) ==
    /\ tp[Client(c)].todo = <<>>
    /\ tp[Client(c)].stage = "out"
    /\ peer[c] = "open"
    /\ peer' = [peer EXCEPT ![c] = "closed"]
    /\ UNCHANGED <<now, files, backlog, listener, inbox, nsends, h>>
    /\ UNCHANGED runvars

\* --------------------------------------------------------- specifications
NextOver(C, R, limit) ==
    \/ Tick
    \/ \E root \in RootDocs : FsEdit(root)
    \/ ListenerCount
    \/ Accept
    \/ \E c \in C :
          \/ ClientConnect(c)
          \/ \E bytes \in R : ClientSend(c, bytes, limit)
          \/ ClientClose(c)
          \/ ClientReset(c)
          \/ RecvData(c)
          \/ RecvEmpty(c)
          \/ RecvReset(c)
          \/ Wake(c)

\* One connection, several requests on it.
Next == NextOver({1}, SomeRequests, MaxSends)
Spec == Init /\ [][Next]_vars

\* One connection, every kind of request.
NextWide == NextOver({1}, Requests, MaxWideSends)
SpecWide == Init /\ [][NextWide]_vars

\* Two connections at one moment, the requests and the resets that end a
\* handler with an exception beside a request that is served.
NextMulti ==
    \/ ListenerCount
    \/ Accept
    \/ \E c \in Conns :
          \/ ClientConnect(c)
          \/ \E bytes \in FewRequests : ClientSend(c, bytes, MaxWideSends)
          \/ ClientReset(c)
          \/ RecvData(c)
          \/ RecvReset(c)
SpecMulti == Init /\ [][NextMulti]_vars

\* One connection, with the scheduling Python gives its threads: a thread
\* that can take a step does take it, and the clock goes on.
NextFair == NextOver({1}, {ReqIndex, ReqFavicon, ReqPost}, MaxWideSends)
Fairness ==
    /\ WF_vars(Tick)
    /\ WF_vars(ListenerCount)
    /\ WF_vars(Accept)
    /\ \A c \in Conns :
          /\ WF_vars(RecvData(c))
          /\ WF_vars(RecvEmpty(c))
          /\ WF_vars(RecvReset(c))
          /\ WF_vars(Wake(c))
FairSpec == Init /\ [][NextFair]_vars /\ Fairness

\* The process as run() starts it: the server, and a client thread for each
\* connection, every thread's prints in their steps.
NextRun ==
    \/ RunCount
    \/ RunAccept
    \/ RunAcceptFails
    \/ \E t \in Threads :
          \/ Enter(t)
          \/ Write(t)
          \/ Leave(t)
    \/ \E c \in Conns :
          \/ RunConnect(c)
          \/ RunSendall(c)
          \/ RunClientRecv(c)
          \/ ClientExit(c)
          \/ RunRecv(c)
          \/ RunReply(c)
          \/ RunRecvEmpty(c)
          \/ RunWake(c)
SpecRun == Init /\ [][NextRun]_vars

\* The same, where a thread inside thread_print goes on to its end and a
\* thread waiting for the free lock gets it.
FairPrint ==
    \A t \in Threads :
        /\ WF_vars(Enter(t))
        /\ WF_vars(Write(t))
        /\ WF_vars(Leave(t))
FairRun == Init /\ [][NextRun]_vars /\ FairPrint

\* ------------------------------------------------ vocabulary of the claims
\* The request as the claims read it: the whitespace-separated tokens of the
\* decoded data of one read.
Tokens(data) == SplitWhitespace(data)
IsRequest(data) == ~DecodeFails(data) /\ Len(Tokens(data)) >= 3
Method(data) == Tokens(data)[1]
Path(data) == Tokens(data)[2]
Version(data) == Tokens(data)[3]

\* The step is a non-empty read on connection c.
ReadStep(c) == h'[c].nread = h[c].nread + 1

\* The handler of c is back at the loop condition with the deadline it has:
\* in recv() again, or closed by the timeout branch if the deadline is over.
BackInLoop(hc, t) ==
    IF WithinTimeout(hc.time_now, t)
    THEN hc.pc = "recv" /\ hc.open /\ hc.closedBy = "none"
    ELSE hc.pc = "done" /\ hc.closedBy = "timeout"

\* C1: a request whose third token is not exactly HTTP/1.1, whatever its
\* method, is answered with 505, the socket is closed and the handler ends;
\* an ended handler reads nothing and answers nothing any more.
C1_UnsupportedVersionCloses ==
    [][\A c \in Conns :
          /\ (ReadStep(c) /\ IsRequest(h'[c].data)
                /\ Version(h'[c].data) # sHTTP11)
             => /\ h'[c].reply = <<Resp505>>
                /\ h'[c].pc = "done"
                /\ ~h'[c].open
                /\ h'[c].closedBy = "version"
          /\ h[c].pc = "done" => h'[c] = h[c] /\ inbox'[c] = inbox[c]]_vars

C1_Witness ==
    \E c \in Conns :
        /\ h[c].data = ReqPostOld
        /\ h[c].reply = <<Resp505>>
        /\ h[c].pc = "done"
        /\ ~h[c].open

\* C3: while every read on a connection has been a well-formed GET of
\* something other than the favicon, each less than TIMEOUT after the one
\* before, and the peer stays connected, the handler has not closed the
\* socket, by the timeout branch or otherwise.
C3_SteadyGetsKeepOpen ==
    \A c \in Conns :
        (h[c].nread > 0 /\ h[c].steady /\ peer[c] = "open")
        => h[c].closedBy = "none" /\ h[c].open

C3_Witness ==
    \E c \in Conns :
        /\ h[c].nread >= 2
        /\ h[c].steady
        /\ peer[c] = "open"
        /\ h[c].pc = "recv"
        /\ now >= TIMEOUT

\* C4 (as claimed): a non-empty read with fewer than three tokens is
\* rejected with a response, the socket is closed and the handler ends
\* without an uncaught exception.
C4_ShortRequestRejected ==
    \A c \in Conns :
        (h[c].nread > 0 /\ ~DecodeFails(h[c].data) /\ Len(Tokens(h[c].data)) < 3)
        => /\ h[c].pc = "done"
           /\ ~h[c].open
           /\ h[c].reply # <<>>
           /\ h[c].exc = "none"

\* C5 (as claimed): a GET request with version HTTP/1.1 and a path other
\* than /favicon.ico resolves to www/index.html for "/" and to www + path
\* otherwise; an existing resource is answered 200 with its contents as the
\* body, a missing one 404 with the location in the body; the connection
\* stays open.
ClaimedLocation(path) == IF path = sRoot THEN sWWWIndex ELSE sWWW \o path

C5_GetServesResource ==
    [][\A c \in Conns :
          (ReadStep(c) /\ IsRequest(h'[c].data)
             /\ Method(h'[c].data) = sGET
             /\ Version(h'[c].data) = sHTTP11
             /\ Path(h'[c].data) # sFavicon)
          => LET location == ClaimedLocation(Path(h'[c].data))
                 entry == Lookup(files, location)
             IN  /\ Len(h'[c].reply) = 1
                 /\ IF entry.kind = "missing"
                    THEN /\ h'[c].reply[1].status = 404
                         /\ Contains(h'[c].reply[1].body, location)
                    ELSE /\ h'[c].reply[1].status = 200
                         /\ h'[c].reply[1].body = entry.content
                 /\ h'[c].open
                 /\ h'[c].pc = "recv"]_vars

\* C6 (as claimed): a request with version HTTP/1.1 whose first token is not
\* exactly GET is answered 500, the deadline is left as it was, and the
\* handler goes on with its loop.
C6_OtherMethodsGet500 ==
    [][\A c \in Conns :
          (ReadStep(c) /\ IsRequest(h'[c].data)
             /\ Version(h'[c].data) = sHTTP11
             /\ Method(h'[c].data) # sGET)
          => /\ h'[c].reply = <<Resp500>>
             /\ h'[c].time_now = h[c].time_now
             /\ BackInLoop(h'[c], now)]_vars

Deadline(hc) == hc.time_now + TIMEOUT

C8_GetExtendsDeadline ==
    [][\A c \in Conns :
          /\ (ReadStep(c) /\ IsRequest(h'[c].data)
                /\ Method(h'[c].data) = sGET
                /\ Path(h'[c].data) # sFavicon
                /\ h'[c].reply # <<>>
                /\ h'[c].reply[1].status \in {200, 404})
             => Deadline(h'[c]) = now + TIMEOUT
          /\ (ReadStep(c) /\ h'[c].data = ReqIndex /\ h[c].data = ReqIndex
                /\ h[c].reply = <<Resp200(ReadText(files[sWWWIndex].content))>>)
             => /\ h'[c].reply = h[c].reply
                /\ Deadline(h[c]) = h[c].at + TIMEOUT
                /\ Deadline(h'[c]) = now + TIMEOUT]_vars

C8_Witness ==
    \E c \in Conns :
        /\ h[c].nread = 2
        /\ h[c].data = ReqIndex
        /\ h[c].prev.data = ReqIndex
        /\ h[c].reply # <<>>
        /\ h[c].reply = h[c].prev.reply
        /\ h[c].reply[1].status = 200
        /\ h[c].time_now = h[c].at
        /\ h[c].time_now > 0

\* C10 (as claimed): whatever makes open() or the read fail, the answer is a
\* 404 that names the location, and the handler goes on with its loop; no
\* exception leaves it.
C10_ResourceFailureIs404 ==
    [][\A c \in Conns :
          (ReadStep(c) /\ h'[c].opened # <<>>
             /\ LET entry == Lookup(files, h'[c].opened[1])
                IN  entry.kind # "file" \/ DecodeFails(entry.content))
          => /\ Len(h'[c].reply) = 1
             /\ h'[c].reply[1].status = 404
             /\ Contains(h'[c].reply[1].body, h'[c].opened[1])
             /\ h'[c].exc = "none"
             /\ BackInLoop(h'[c], now)]_vars

\* C2 (as claimed): a handler waiting for a request on a connection whose
\* peer stays connected and sends nothing is eventually closed by the
\* timeout branch.
C2_IdleConnectionTimesOut ==
    \A c \in Conns :
        (h[c].pc = "recv")
        ~> (h[c].closedBy = "timeout" \/ inbox[c] # <<>> \/ peer[c] # "open")

\* C9: an exception that ends a handler changes nothing outside it: the
\* listener stays where it is in its accept loop, and every other
\* connection's handler, socket and pending requests are as they were; with
\* a handler dead the listener still accepts and the other handlers still
\* read what their peers sent.
Crashed(c) == h[c].pc = "crashed"

C9_ErrorsStayInHandler ==
    /\ [](\A c \in Conns :
             Crashed(c)
             => /\ listener.pc # "dead"
                /\ (listener.pc = "accept" /\ backlog # <<>>) => ENABLED Accept
                /\ \A d \in Conns \ {c} :
                      (h[d].pc = "recv" /\ inbox[d] # <<>> /\ peer[d] # "reset")
                      => ENABLED RecvData(d))
    /\ [][\A c \in Conns :
             (~Crashed(c) /\ h'[c].pc = "crashed")
             => /\ listener' = listener
                /\ backlog' = backlog
                /\ \A d \in Conns \ {c} :
                      /\ h'[d] = h[d]
                      /\ inbox'[d] = inbox[d]
                      /\ peer'[d] = peer[d]]_vars

\* A handler has died of a malformed request; the listener has since counted
\* one live handler and waits in accept(); that handler has a request to read.
C9_Witness ==
    \E c \in Conns, d \in Conns :
        /\ c # d
        /\ Crashed(c)
        /\ h[c].exc = "IndexError"
        /\ h[d].pc = "recv"
        /\ inbox[d] = ReqRoot
        /\ listener = [pc |-> "accept", count |-> 1]

\* The thread is inside the with block of thread_print.
InPrintSection(t) == tp[t].stage \in {"in", "written"}

\* C11: at most one thread, whichever it is, is inside the print section of
\* thread_print at a time; the text on the unfinished output line is that
\* of the one thread that has written and not yet ended its line, so no
\* line is broken by another.
C11_OnePrinterAtATime ==
    /\ Cardinality({t \in Threads : InPrintSection(t)}) <= 1
    /\ Len(stdout) <= 1
    /\ \A t \in Threads :
          /\ tp[t].stage = "written" => stdout = <<t>>
          /\ tp[t].stage = "in" => stdout = <<>>

\* A handler has written its text and not yet the line end while the
\* listener and a client both stand at a call of thread_print.
C11_Witness ==
    \E c \in Conns, d \in Conns :
        /\ tp[Handler(c)].stage = "written"
        /\ AtPrint(Main) /\ tp[Main].stage = "out"
        /\ AtPrint(Client(d)) /\ tp[Client(d)].stage = "out"

\* What the server answers to the one request client c sent.
OwnResponse(c) == Pass(files, client[c].request).sent

\* C12: with a client on every connection, each sending exactly one
\* request: what a client receives, and what is on its connection on the
\* way to it, is the response to its own request and nothing else; a
\* handler reads its own client's request, once; and when every client has
\* its response the server has handled as many requests as there are
\* clients.
C12_OwnResponsePerClient ==
    /\ \A c \in Conns :
          /\ client[c].data # <<>> => client[c].data = OwnResponse(c)
          /\ wire[c] # <<>>
             => client[c].request # <<>> /\ wire[c] = OwnResponse(c)
          /\ h[c].nread <= 1
          /\ h[c].nread = 1 => h[c].data = client[c].request
    /\ (\A c \in Conns : client[c].data # <<>>)
       => Cardinality({c \in Conns : h[c].nread = 1}) = Cardinality(Conns)

\* Two clients with different requests have each received their own answer.
C12_Witness ==
    \E c \in Conns, d \in Conns :
        /\ client[c].request = ReqRoot
        /\ client[c].data # <<>>
        /\ client[c].data[1].status = 200
        /\ client[d].request = ReqOld
        /\ client[d].data = <<Resp505>>

\* C13 (as claimed): when the listener writes its count of active
\* connections, the count is the number of handler threads that have been
\* started and have not yet ended.
C13_ReportedCountIsCurrent ==
    [][(listener.pc = "accept"
          /\ tp[Main].stage = "in" /\ tp'[Main].stage = "written")
       => listener.count = RunningCount]_vars

\* C14 (as claimed): whatever accept() does on the listening socket, the
\* listener is in its loop, counting or waiting in accept(); a failure of
\* accept() never ends it.
C14_ListenerSurvivesAccept == listener.pc \in {"count", "accept"}

\* The step is one of the listener thread.
ListenerStep == listener' # listener \/ tp'[Main] # tp[Main]

\* C15: a connection that has been accepted has been given to exactly one
\* handler thread and no longer waits in the listening socket's queue, so
\* no two handlers own one connection; and a step of the listener neither
\* reads from, nor writes on, nor closes, a connection it has handed over,
\* nor touches that connection's handler.
C15_OneHandlerPerConnection ==
    /\ [](\A c \in Conns :
             /\ dispatched[c] <= 1
             /\ dispatched[c] = 1 <=> h[c].pc # "none"
             /\ dispatched[c] = 1
                => \A i \in 1..Len(backlog) : backlog[i] # c)
    /\ [][ListenerStep
          => \A c \in Conns :
                dispatched[c] > 0
                => /\ inbox'[c] = inbox[c]
                   /\ wire'[c] = wire[c]
                   /\ peer'[c] = peer[c]
                   /\ h'[c] = h[c]]_vars

\* Both connections have been handed over, each handler has read its own
\* client's request, and the listener is in accept() again.
C15_Witness ==
    /\ \A c \in Conns :
          /\ dispatched[c] = 1
          /\ h[c].nread = 1
          /\ h[c].data = client[c].request
    /\ listener = [pc |-> "accept", count |-> 2]
    /\ tp[Main].todo = <<>>

\* C16 (as claimed): a handler that has stopped running, by return or by
\* exception, has closed its socket.
C16_EndedHandlerHasClosed ==
    \A c \in Conns : h[c].pc \in {"done", "crashed"} => ~h[c].open

\* C17 (as claimed): every non-empty read is answered with exactly one
\* response, sent before the next read, which finds the read and the
\* response before it in place: the responses follow the order of the reads.
C17_OneResponsePerRead ==
    [][\A c \in Conns :
          ReadStep(c)
          => /\ Len(h'[c].reply) = 1
             /\ h'[c].prev = [data |-> h[c].data, reply |-> h[c].reply]]_vars

\* The step is a read on connection c that yields no data.
EmptyReadStep(c) == h[c].pc = "recv" /\ h'[c].pc = "sleep"

\* C18: a read that yields no data leaves the deadline, what has been sent
\* and the count of requests as they were, prints nothing and closes
\* nothing; the handler then sleeps, and its next step is the loop
\* condition: back to recv() with the same deadline while it is not over,
\* the timeout branch once it is.
C18_EmptyReadIsIdle ==
    [][\A c \in Conns :
          /\ EmptyReadStep(c)
             => /\ h'[c].time_now = h[c].time_now
                /\ h'[c].reply = h[c].reply
                /\ h'[c].nread = h[c].nread
                /\ h'[c].log = <<>>
                /\ h'[c].open /\ h'[c].closedBy = "none"
                /\ inbox'[c] = inbox[c]
          /\ (h[c].pc = "sleep" /\ h'[c] # h[c])
             => /\ h'[c].time_now = h[c].time_now
                /\ h'[c].reply = h[c].reply
                /\ h'[c].nread = h[c].nread
                /\ IF now < Deadline(h[c])
                   THEN h'[c].pc = "recv" /\ h'[c].open
                   ELSE h'[c].pc = "done" /\ h'[c].closedBy = "timeout"]_vars

\* A handler sleeps after an empty read, later than its last request, and
\* its deadline is still that of the request.
C18_Witness ==
    \E c \in Conns :
        /\ h[c].pc = "sleep"
        /\ h[c].nread = 1
        /\ h[c].reply # <<>>
        /\ h[c].reply[1].status = 200
        /\ now > h[c].at
        /\ h[c].time_now = h[c].at

\* The handler of c has closed its socket, on the 505 branch or on the
\* timeout branch.
Closed(c) == h[c].closedBy # "none"

\* C19: a handler that has closed its socket has ended and stays as it is:
\* no read of data, of the peer's close or of its reset, and no wake-up, is
\* open to it any more, whatever the peer does, and no step changes it; it
\* is never again waiting for a request.
C19_ClosedIsTerminal ==
    /\ [](\A c \in Conns :
             Closed(c)
             => /\ h[c].pc = "done"
                /\ ~h[c].open
                /\ ~ENABLED RecvData(c)
                /\ ~ENABLED RecvEmpty(c)
                /\ ~ENABLED RecvReset(c)
                /\ ~ENABLED Wake(c))
    /\ [][\A c \in Conns : Closed(c) => h'[c] = h[c]]_vars

\* A handler closed on the 505 branch; since then time has passed and the
\* peer has closed its end, which a handler still reading would notice.
C19_Witness ==
    \E c \in Conns :
        /\ h[c].closedBy = "version"
        /\ h[c].reply = <<Resp505>>
        /\ peer[c] = "closed"
        /\ now > h[c].at

\* C20: the thread that holds the print lock is inside thread_print, at no
\* recv(), sendall(), accept(), connect() or sleep; a thread that holds the
\* lock releases it, and a thread that stands at thread_print gets the
\* lock, whatever the handlers blocked on their clients do meanwhile.
C20_LockNeverHeldWhileWaiting ==
    /\ [](\A t \in Threads :
             PRINT_LOCK = t => AtPrint(t) /\ InPrintSection(t))
    /\ [](\A c \in Conns :
             (Alive(c) /\ tp[Handler(c)].todo = <<>>)
             => PRINT_LOCK # Handler(c))
    /\ [](listener.pc = "accept" /\ tp[Main].todo = <<>> => PRINT_LOCK # Main)
    /\ \A t \in Threads :
          /\ (PRINT_LOCK = t) ~> (PRINT_LOCK # t)
          /\ (AtPrint(t) /\ tp[t].stage = "out") ~> (PRINT_LOCK = t)

\* A handler is blocked in recv() on a client that is connected and has
\* sent nothing, while the other handler holds the lock and the listener
\* stands at thread_print.
C20_Witness ==
    \E c \in Conns, d \in Conns :
        /\ h[c].pc = "recv"
        /\ tp[Handler(c)].todo = <<>>
        /\ peer[c] = "open"
        /\ inbox[c] = <<>>
        /\ PRINT_LOCK = Handler(d)
        /\ AtPrint(Main) /\ tp[Main].stage = "out"

====
